---- MODULE Spec2Model ----
(***************************************************************************)
(* State-machine model of src/modules/history.js: the undo/redo snapshot   *)
(* store with count and byte limits, the taint flag, the identity-keyed    *)
(* metadata table, the deferred thumbnail jobs and the UI notifications.   *)
(*                                                                         *)
(* JavaScript numbers that reach the module from outside (arguments,       *)
(* option fields, persisted strings) are records [k, h2]: k = "num" is the *)
(* finite number h2/2 (so 0.5 and 1.5 exist), k = "nan" is NaN and         *)
(* k = "undef" an absent field.                                            *)
(***************************************************************************)
EXTENDS Integers, Sequences, FiniteSets, TLC

VARIABLES
    canvasRef,        \* "null" before initHistory, "canvas" after (ctxRef goes with it)
    surface,          \* the live canvas: [width, height, data]
    undoStack,        \* sequence of ImageData objects, oldest first
    redoStack,        \* sequence of ImageData objects, oldest first
    isTainted,
    maxEntries,
    maxBytes,         \* Undefined when no cap is set
    protectReturned,
    thumbEnabled,
    thumbHeight,      \* a number record (the persisted value may be any number)
    metaMap,          \* function: ImageData identity -> [ts, label, thumbDataUrl]
    storage,          \* localStorage: [maxEntries, thumbHeight], number records or Null
    jobs,             \* thumbnail jobs in flight: the identity of the ImageData of each
    nextId,           \* identity of the next ImageData object the surface read creates
    lastOp,           \* the call or step that produced this state
    lastRead,         \* outcome of the surface read of that call ("none" if no read)
    lastRet,          \* what that call returned
    pre,              \* stacks, taint flag and pending jobs as they were when that call started
    note,             \* payload handed to updateUICallback by that call, or NoNote
    frame,            \* the click handler of the application that is running, if any
    caman             \* camanBusy, camanOpToken and the filter operations in flight

vars == <<canvasRef, surface, undoStack, redoStack, isTainted, maxEntries, maxBytes,
          protectReturned, thumbEnabled, thumbHeight, metaMap, storage, jobs, nextId,
          lastOp, lastRead, lastRet, pre, note, frame, caman>>

(***************************************************************************)
(* Bounds of the model.                                                    *)
(***************************************************************************)
\* number of ImageData objects the surface reads may create in one run
MaxSnaps == 3

(***************************************************************************)
(* Program constants.                                                      *)
(***************************************************************************)
DEFAULT_MAX_ENTRIES == 50
THUMB_DEFAULT_SIZE == 96
\* maxBytes = undefined
Undefined == -1

(***************************************************************************)
(* JavaScript numbers.                                                     *)
(***************************************************************************)
Num(h2) == [k |-> "num", h2 |-> h2]
Int2(n) == Num(2 * n)
NaN == [k |-> "nan", h2 |-> 0]
Absent == [k |-> "undef", h2 |-> 0]
Null == [k |-> "null", h2 |-> 0]

\* Number.isFinite(x)
IsFinite(x) == x.k = "num"
\* Math.floor(x), x finite
Floor(x) == x.h2 \div 2

(***************************************************************************)
(* ImageData objects and the surface.                                      *)
(***************************************************************************)
\* contents the collaborators can give the surface
Surfaces ==
    { [width |-> 1, height |-> 1, data |-> "A"],
      [width |-> 2, height |-> 1, data |-> "B"],
      [width |-> 0, height |-> 0, data |-> ""] }

NoImage == [id |-> 0, width |-> 0, height |-> 0, data |-> "none"]

\* ctx.getImageData(0, 0, width, height): a new object holding the surface's pixels
GetImageData(id) ==
    [id |-> id, width |-> surface.width, height |-> surface.height, data |-> surface.data]

\* mutant: a zero-sized rectangle is read like any other
ReadOutcome_SizeBlind(env) == env

\* getImageData throws IndexSizeError on a zero-sized rectangle; otherwise the
\* environment decides (cross-origin content makes it throw SecurityError)
ReadOutcome(env) ==
    IF surface.width = 0 \/ surface.height = 0 THEN "other" ELSE env

ReadOutcomes == {"ok", "security", "other"}

\* what a call is given: the outcome of its surface read, "none" when it returns
\* before reading
ReadInputs == ReadOutcomes \cup {"none"}

\* the test of the catch blocks: e.name === "SecurityError" or /taint|SecurityError/i
IsTaintError(outcome) == outcome = "security"

\* cloneImageData: a new object with the same dimensions and bytes
cloneImageData(img) == [img EXCEPT !.id = 0]

Ids(stack) == { stack[i].id : i \in 1..Len(stack) }

(***************************************************************************)
(* Byte estimate and eviction.                                             *)
(***************************************************************************)
RECURSIVE SumBytes(_)
SumBytes(stack) ==
    IF stack = <<>> THEN 0
    ELSE Head(stack).width * Head(stack).height * 4 + SumBytes(Tail(stack))

getEstimatedBytes(u, r) == SumBytes(u) + SumBytes(r)

\* mutant: the newest entries are dropped instead of the oldest
EvictCount_Newest(u, me) == IF Len(u) > me THEN SubSeq(u, 1, me) ELSE u

\* mutant: a stack over the limit is emptied
EvictCount_All(u, me) == IF Len(u) > me THEN <<>> ELSE u

\* first loop of _enforceLimits
RECURSIVE EvictCount(_, _)
EvictCount(u, me) ==
    IF Len(u) > me THEN EvictCount(Tail(u), me) ELSE u

\* mutant: the byte cap is not enforced
EvictBytes_Off(u, r, mb) == u

\* second loop of _enforceLimits
RECURSIVE EvictBytes(_, _, _)
EvictBytes(u, r, mb) ==
    IF getEstimatedBytes(u, r) > mb /\ Len(u) > 0
    THEN EvictBytes(Tail(u), r, mb)
    ELSE u

\* !maxBytes
NoByteCap(mb) == mb = Undefined \/ mb = 0

\* _enforceLimits: the undo stack it leaves
EnforceLimits(u, r, me, mb) ==
    LET u1 == EvictCount(u, me)
    IN IF NoByteCap(mb) THEN u1 ELSE EvictBytes(u1, r, mb)

\* mutant: the entry count is enforced on both stacks together, the redo stack
\* losing its oldest entry
EnforceRedo_Evicts(u, r, me, mb) ==
    IF r # <<>> /\ Len(EvictCount(u, me)) + Len(r) > me THEN Tail(r) ELSE r

\* _enforceLimits: the redo stack it leaves (it shifts the undo stack only)
EnforceRedo(u, r, me, mb) == r

\* metaMap.delete(evicted) for every snapshot _enforceLimits shifted out
DeleteEvicted(m, before, after) ==
    [i \in DOMAIN m \ (Ids(before) \ Ids(after)) |-> m[i]]

\* metaMap.set(key, value)
MetaSet(m, id, value) ==
    [i \in DOMAIN m \cup {id} |-> IF i = id THEN value ELSE m[i]]

\* no thumbDataUrl yet (the listings show it as null)
NoThumb == ""

\* Date.now(), as a logical clock: the number of the capture
Now == nextId

\* metaMap is a WeakMap: an entry whose key object nothing references any more
\* cannot be observed and is collected. Referenced: the stacks and the closures of
\* the thumbnail jobs in flight. An entry that loses its last reference in a step
\* is still in the table when the step ends (the step held the object) and is
\* gone when the next step starts.
Reachable(u, r, js) == Ids(u) \cup Ids(r) \cup js

WeakMap(m, u, r, js) == [i \in DOMAIN m \cap Reachable(u, r, js) |-> m[i]]

(***************************************************************************)
(* Notifications.                                                          *)
(***************************************************************************)
NoNote == [sent |-> FALSE]

\* one element of the list built by _updateUI
Entry(idx, img, m) ==
    LET e == IF img.id \in DOMAIN m THEN m[img.id]
             ELSE [ts |-> 0, label |-> "", thumbDataUrl |-> NoThumb]
    IN [index |-> idx, width |-> img.width, height |-> img.height,
        ts |-> e.ts, label |-> e.label, thumbDataUrl |-> e.thumbDataUrl]

\* const entries = undoStack.map(...) in _updateUI
UIEntries(u, m) == [i \in 1..Len(u) |-> Entry(i - 1, u[i], m)]

\* mutant: the listing counts its entries from 1
getHistoryThumbnails_OneBased(u, m) ==
    [i \in 1..Len(u) |->
        [index |-> i,
         width |-> u[i].width,
         height |-> u[i].height,
         ts |-> IF u[i].id \in DOMAIN m THEN m[u[i].id].ts ELSE 0,
         label |-> IF u[i].id \in DOMAIN m THEN m[u[i].id].label ELSE "",
         thumbDataUrl |-> IF u[i].id \in DOMAIN m THEN m[u[i].id].thumbDataUrl
                          ELSE NoThumb]]

\* the exported listing: undoStack.map((imgData, idx) => ...) with
\* m = metaMap.get(imgData) || {}
getHistoryThumbnails(u, m) ==
    [i \in 1..Len(u) |->
        [index |-> i - 1,
         width |-> u[i].width,
         height |-> u[i].height,
         ts |-> IF u[i].id \in DOMAIN m THEN m[u[i].id].ts ELSE 0,
         label |-> IF u[i].id \in DOMAIN m THEN m[u[i].id].label ELSE "",
         thumbDataUrl |-> IF u[i].id \in DOMAIN m THEN m[u[i].id].thumbDataUrl
                          ELSE NoThumb]]

getLimits(me, mb, pr) == [maxEntries |-> me, maxBytes |-> mb, protectReturned |-> pr]

\* mutant: the undo count is the one the call found when it started
Payload_Stale(u, r, me, mb, pr, m, te, th, extra) ==
    [sent |-> TRUE,
     undoCount |-> Len(undoStack),
     redoCount |-> Len(r),
     estimatedBytes |-> getEstimatedBytes(u, r),
     limits |-> getLimits(me, mb, pr),
     thumbnails |-> UIEntries(u, m),
     thumbPrefs |-> [enabled |-> te, height |-> th],
     extra |-> extra]

\* _updateUI(extra): the payload computed from the state at the time of the call
Payload(u, r, me, mb, pr, m, te, th, extra) ==
    [sent |-> TRUE,
     undoCount |-> Len(u),
     redoCount |-> Len(r),
     estimatedBytes |-> getEstimatedBytes(u, r),
     limits |-> getLimits(me, mb, pr),
     thumbnails |-> UIEntries(u, m),
     thumbPrefs |-> [enabled |-> te, height |-> th],
     extra |-> extra]

(***************************************************************************)
(* Return values and call bookkeeping.                                     *)
(***************************************************************************)
RetNone == [k |-> "none", img |-> NoImage]
RetNull == [k |-> "null", img |-> NoImage]
RetTrue == [k |-> "true", img |-> NoImage]
RetFalse == [k |-> "false", img |-> NoImage]
RetImage(img) == [k |-> "image", img |-> img]
\* the call ended with an exception reaching the caller
RetThrow == [k |-> "throw", img |-> NoImage]

\* no click handler of the application is running, and none has left a mark
NoMeta == [ts |-> 0, label |-> "", thumbDataUrl |-> NoThumb]
NoMark == [undoStack |-> <<>>, redoStack |-> <<>>,
           surface |-> [width |-> 0, height |-> 0, data |-> ""], top |-> NoMeta]
NoFrame == [handler |-> "none", op |-> "none", remaining |-> 0, idx |-> 0,
            listed |-> NoImage, allOk |-> FALSE, last |-> "none", round |-> FALSE,
            mark |-> NoMark]

\* app.js: camanBusy = false, camanOpToken = 0 and no operation started.
\* ops holds the operations whose Caman or render callback is still to come,
\* pushedBy and discarded the operations whose render completion did and did
\* not call pushHistory
NoCaman == [busy |-> FALSE, opToken |-> 0, ops |-> {}, pushedBy |-> {}, discarded |-> {}]

\* a call of the module: the handler that made it stays where it is
Called(op, read, ret) ==
    /\ frame' = frame
    /\ caman' = caman
    /\ lastOp' = op
    /\ lastRead' = read
    /\ lastRet' = ret
    /\ pre' = [undoStack |-> undoStack, redoStack |-> redoStack, isTainted |-> isTainted,
               jobs |-> jobs]

\* the table as a step finds it
Live == WeakMap(metaMap, undoStack, redoStack, jobs)

canUndo == ~isTainted /\ Len(undoStack) > 0
canRedo == ~isTainted /\ Len(redoStack) > 0

(***************************************************************************)
(* Module load and initHistory.                                            *)
(***************************************************************************)
\* values localStorage may hold when the module is loaded
StoredMaxEntries == {Int2(1)}
StoredThumbHeight == {Int2(96)}

\* the initializer of maxEntries: Number(getItem(...)), finite and > 0, floored
LoadMaxEntries(saved) ==
    IF saved.k = "num" /\ saved.h2 > 0 THEN Floor(saved) ELSE DEFAULT_MAX_ENTRIES

\* the initializer of thumbHeight: Number(getItem(...)) || THUMB_DEFAULT_SIZE
LoadThumbHeight(saved) ==
    IF saved.k = "num" /\ saved.h2 # 0 THEN saved ELSE Int2(THUMB_DEFAULT_SIZE)

Init ==
    /\ canvasRef = "null"
    /\ surface = [width |-> 1, height |-> 1, data |-> "A"]
    /\ undoStack = <<>>
    /\ redoStack = <<>>
    /\ isTainted = FALSE
    /\ storage \in [maxEntries : StoredMaxEntries, thumbHeight : StoredThumbHeight]
    /\ maxEntries = LoadMaxEntries(storage.maxEntries)
    /\ maxBytes = Undefined
    /\ protectReturned = FALSE
    /\ thumbEnabled = TRUE
    /\ thumbHeight = LoadThumbHeight(storage.thumbHeight)
    /\ metaMap = <<>>
    /\ jobs = {}
    /\ nextId = 1
    /\ lastOp = "load"
    /\ lastRead = "none"
    /\ lastRet = RetNone
    /\ pre = [undoStack |-> <<>>, redoStack |-> <<>>, isTainted |-> FALSE, jobs |-> {}]
    /\ note = NoNote
    /\ frame = NoFrame
    /\ caman = NoCaman

\* second arguments given to initHistory
InitOptions ==
    { [kind |-> "function", maxEntries |-> Absent, maxBytes |-> Absent,
       protectReturned |-> FALSE, thumbnails |-> TRUE, thumbHeight |-> Absent],
      [kind |-> "object", maxEntries |-> Int2(2), maxBytes |-> Int2(12),
       protectReturned |-> TRUE, thumbnails |-> TRUE, thumbHeight |-> Absent],
      [kind |-> "object", maxEntries |-> Int2(2), maxBytes |-> Absent,
       protectReturned |-> FALSE, thumbnails |-> FALSE, thumbHeight |-> Absent],
      [kind |-> "object", maxEntries |-> Int2(-1), maxBytes |-> Absent,
       protectReturned |-> FALSE, thumbnails |-> TRUE, thumbHeight |-> Int2(300)] }

\* maxEntries as initHistory sets it from an options object (me defaults to 50)
InitMaxEntries(me) ==
    IF IsFinite(me) /\ me.h2 > 0 THEN Floor(me) ELSE DEFAULT_MAX_ENTRIES

InitMaxBytes(mb) ==
    IF IsFinite(mb) /\ mb.h2 > 0 THEN Floor(mb) ELSE Undefined

InitThumbHeight(th, old) ==
    IF IsFinite(th) /\ th.h2 > 2 * 16 /\ th.h2 <= 2 * 256 THEN Int2(Floor(th)) ELSE old

\* taint flag initHistory leaves
InitTainted == FALSE

initHistory(o) ==
    /\ canvasRef' = "canvas"
    /\ IF o.kind = "object"
       THEN /\ maxEntries' = InitMaxEntries(o.maxEntries)
            /\ maxBytes' = InitMaxBytes(o.maxBytes)
            /\ protectReturned' = o.protectReturned
            /\ thumbEnabled' = o.thumbnails
            /\ thumbHeight' = InitThumbHeight(o.thumbHeight, thumbHeight)
       ELSE /\ maxEntries' = DEFAULT_MAX_ENTRIES
            /\ maxBytes' = Undefined
            /\ protectReturned' = FALSE
            /\ UNCHANGED <<thumbEnabled, thumbHeight>>
    /\ undoStack' = <<>>
    /\ redoStack' = <<>>
    /\ isTainted' = InitTainted
    /\ Called("initHistory", "none", RetNone)
    /\ metaMap' = Live
    /\ note' = Payload(undoStack', redoStack', maxEntries', maxBytes', protectReturned',
                       metaMap', thumbEnabled', thumbHeight', "none")
    /\ UNCHANGED <<surface, storage, jobs, nextId>>

(***************************************************************************)
(* Runtime controls.                                                       *)
(***************************************************************************)
MaxEntriesArgs == {NaN, Num(3)}
ThumbHeightArgs == {Int2(47), Num(193)}

\* mutant: the new limit is stored and enforced by the next push only
SetMaxEntriesEnforce_Later(u, r, me, mb) == u

\* the undo stack setMaxEntries leaves once the new limit is stored
SetMaxEntriesEnforce(u, r, me, mb) == EnforceLimits(u, r, me, mb)

setMaxEntries(n) ==
    /\ Called("setMaxEntries", "none", RetNone)
    /\ IF ~IsFinite(n) \/ n.h2 <= 0
       THEN /\ note' = NoNote
            /\ metaMap' = Live
            /\ UNCHANGED <<maxEntries, storage, undoStack, redoStack>>
       ELSE /\ maxEntries' = Floor(n)
            /\ storage' = [storage EXCEPT !.maxEntries = Int2(maxEntries')]
            /\ undoStack' = SetMaxEntriesEnforce(undoStack, redoStack, maxEntries', maxBytes)
            /\ redoStack' = EnforceRedo(undoStack, redoStack, maxEntries', maxBytes)
            /\ metaMap' = DeleteEvicted(Live, undoStack, undoStack')
            /\ note' = Payload(undoStack', redoStack', maxEntries', maxBytes,
                               protectReturned, metaMap', thumbEnabled, thumbHeight,
                               "limits")
    /\ UNCHANGED <<canvasRef, surface, isTainted, maxBytes, protectReturned,
                   thumbEnabled, thumbHeight, jobs, nextId>>

setThumbHeight(h) ==
    /\ Called("setThumbHeight", "none", RetNone)
    /\ metaMap' = Live
    /\ IF IsFinite(h) /\ h.h2 >= 2 * 48 /\ h.h2 <= 2 * 256
       THEN /\ thumbHeight' = Int2(Floor(h))
            /\ storage' = [storage EXCEPT !.thumbHeight = thumbHeight']
            /\ note' = Payload(undoStack, redoStack, maxEntries, maxBytes,
                               protectReturned, metaMap', thumbEnabled, thumbHeight',
                               "thumbHeight")
       ELSE /\ note' = NoNote
            /\ UNCHANGED <<thumbHeight, storage>>
    /\ UNCHANGED <<canvasRef, surface, undoStack, redoStack, isTainted, maxEntries,
                   maxBytes, protectReturned, thumbEnabled, jobs, nextId>>

(***************************************************************************)
(* pushHistory.                                                            *)
(***************************************************************************)
PushLabels == {"Text"}

\* mutant: the redo stack is left as it was
ClearRedo_Kept(r) == r

\* redoStack = [] on a new action
ClearRedo(r) == <<>>

\* mutant: the call of _enforceLimits is missing
PushEnforce_Missing(u, r, me, mb) == u

\* the undo stack pushHistory leaves: the snapshot appended, then _enforceLimits
PushEnforce(u, r, me, mb) == EnforceLimits(u, r, me, mb)

\* mutant: the flag is not reset
TaintAfterPush_Kept(t) == t

\* if (isTainted) isTainted = false, after a successful capture
TaintAfterPush(t) == FALSE

\* mutant: isTainted = tainted
TaintAfterFailedPush_Assigned(t, outcome) == IsTaintError(outcome)

\* if (tainted) isTainted = true, in the catch block
TaintAfterFailedPush(t, outcome) == t \/ IsTaintError(outcome)

\* mutant: the preview is made inside the call
PushMeta_WithThumb(ts, label) == [ts |-> ts, label |-> label, thumbDataUrl |-> "data:"]

\* metaMap.set(snapshot, { ts: Date.now(), label: label || "" })
PushMeta(ts, label) == [ts |-> ts, label |-> label, thumbDataUrl |-> NoThumb]

\* mutant: the job is queued whatever the preference
SchedulesThumb_Always(enabled) == TRUE

\* if (thumbEnabled) _scheduleThumbGeneration(snapshot)
SchedulesThumb(enabled) == enabled

pushHistory(label, env) ==
    LET outcome == ReadOutcome(env)
        snapshot == GetImageData(nextId)
    IN
    IF canvasRef = "null" \/ surface.width = 0
    THEN /\ env = "none"
         /\ Called("pushHistory", "none", RetFalse)
         /\ metaMap' = Live
         /\ note' = NoNote
         /\ UNCHANGED <<canvasRef, surface, undoStack, redoStack, isTainted, maxEntries,
                        maxBytes, protectReturned, thumbEnabled, thumbHeight, storage,
                        jobs, nextId>>
    ELSE IF outcome = "ok"
    THEN /\ env \in ReadOutcomes
         /\ nextId <= MaxSnaps
         /\ nextId' = nextId + 1
         /\ redoStack' = EnforceRedo(Append(undoStack, snapshot), ClearRedo(redoStack),
                                     maxEntries, maxBytes)
         /\ undoStack' = PushEnforce(Append(undoStack, snapshot), redoStack',
                                     maxEntries, maxBytes)
         /\ isTainted' = TaintAfterPush(isTainted)
         /\ jobs' = IF SchedulesThumb(thumbEnabled) THEN jobs \cup {snapshot.id} ELSE jobs
         /\ Called("pushHistory", outcome, RetTrue)
         /\ metaMap' = DeleteEvicted(
                MetaSet(Live, snapshot.id, PushMeta(Now, label)),
                Append(undoStack, snapshot), undoStack')
         /\ note' = Payload(undoStack', redoStack', maxEntries, maxBytes, protectReturned,
                            metaMap', thumbEnabled, thumbHeight,
                            IF isTainted THEN "tainted:false" ELSE "none")
         /\ UNCHANGED <<canvasRef, surface, maxEntries, maxBytes, protectReturned,
                        thumbEnabled, thumbHeight, storage>>
    ELSE /\ env \in ReadOutcomes
         /\ Called("pushHistory", outcome, RetFalse)
         /\ metaMap' = Live
         /\ isTainted' = TaintAfterFailedPush(isTainted, outcome)
         /\ note' = IF IsTaintError(outcome)
                    THEN Payload(undoStack, redoStack, maxEntries, maxBytes,
                                 protectReturned, metaMap', thumbEnabled, thumbHeight,
                                 "tainted:true")
                    ELSE NoNote
         /\ UNCHANGED <<canvasRef, surface, undoStack, redoStack, maxEntries, maxBytes,
                        protectReturned, thumbEnabled, thumbHeight, storage, jobs, nextId>>

(***************************************************************************)
(* undo and redo.                                                          *)
(***************************************************************************)
\* mutant: the oldest entry is taken for the most recent one
Top_Oldest(stack) == stack[1]

\* the entry Array.prototype.pop hands back
Top(stack) == stack[Len(stack)]
Pop(stack) == SubSeq(stack, 1, Len(stack) - 1)

\* what undo/redo hand back for a stored snapshot
Returned(img) == IF protectReturned THEN cloneImageData(img) ELSE img

\* mutant: the ImageData constructor refuses every size
CloneThrows_Always(img) == TRUE

\* new ImageData(width, height) inside cloneImageData throws IndexSizeError
\* when either dimension is zero
CloneThrows(img) == img.width = 0 \/ img.height = 0

\* does the tail of undo/redo (after the read) throw to the caller
TailThrows(img) == protectReturned /\ CloneThrows(img)

\* the notification of the closing _updateUI(), which a throwing tail never reaches
NoteAfter(img, payload) == IF TailThrows(img) THEN NoNote ELSE payload

\* how undo/redo end for the stored snapshot they took off a stack
ReturnOf(img) == IF TailThrows(img) THEN RetThrow ELSE RetImage(Returned(img))

\* the redo stack redo leaves when its surface read throws a security error
\* (next was popped before the read)
RedoStackOnTaint(r) == Pop(r)

\* mutant: redo does not run the eviction policy
RedoEnforce_Missing(u, r, me, mb) == u

\* the undo stack redo leaves: the capture appended, then _enforceLimits
RedoEnforce(u, r, me, mb) == EnforceLimits(u, r, me, mb)

undo(env) ==
    LET outcome == ReadOutcome(env)
        current == GetImageData(nextId)
        prev == Top(undoStack)
    IN
    IF isTainted \/ ~canUndo
    THEN /\ env = "none"
         /\ Called("undo", "none", RetNull)
         /\ note' = NoNote
         /\ metaMap' = Live
         /\ UNCHANGED <<canvasRef, surface, undoStack, redoStack, isTainted, maxEntries,
                        maxBytes, protectReturned, thumbEnabled, thumbHeight, storage, jobs, nextId>>
    ELSE IF outcome = "ok"
    THEN /\ env \in ReadOutcomes
         /\ nextId <= MaxSnaps
         /\ nextId' = nextId + 1
         /\ redoStack' = Append(redoStack, current)
         /\ metaMap' = MetaSet(Live, current.id,
                               [ts |-> Now, label |-> "redo-base", thumbDataUrl |-> NoThumb])
         /\ undoStack' = Pop(undoStack)
         /\ Called("undo", outcome, ReturnOf(prev))
         /\ note' = NoteAfter(prev,
                Payload(undoStack', redoStack', maxEntries, maxBytes, protectReturned,
                        metaMap', thumbEnabled, thumbHeight, "none"))
         /\ UNCHANGED <<canvasRef, surface, isTainted, maxEntries, maxBytes,
                        protectReturned, thumbEnabled, thumbHeight, storage, jobs>>
    ELSE IF IsTaintError(outcome)
    THEN /\ env \in ReadOutcomes
         /\ isTainted' = TRUE
         /\ Called("undo", outcome, RetNull)
         /\ note' = Payload(undoStack, redoStack, maxEntries, maxBytes, protectReturned,
                            Live, thumbEnabled, thumbHeight, "tainted:true")
         /\ metaMap' = Live
         /\ UNCHANGED <<canvasRef, surface, undoStack, redoStack, maxEntries, maxBytes,
                        protectReturned, thumbEnabled, thumbHeight, storage,
                        jobs, nextId>>
    ELSE /\ env \in ReadOutcomes
         /\ undoStack' = Pop(undoStack)
         /\ Called("undo", outcome, ReturnOf(prev))
         /\ note' = NoteAfter(prev,
                Payload(undoStack', redoStack, maxEntries, maxBytes, protectReturned,
                        Live, thumbEnabled, thumbHeight, "none"))
         /\ metaMap' = Live
         /\ UNCHANGED <<canvasRef, surface, redoStack, isTainted, maxEntries, maxBytes,
                        protectReturned, thumbEnabled, thumbHeight, storage,
                        jobs, nextId>>

redo(env) ==
    LET outcome == ReadOutcome(env)
        current == GetImageData(nextId)
        next == Top(redoStack)
    IN
    IF isTainted \/ ~canRedo
    THEN /\ env = "none"
         /\ Called("redo", "none", RetNull)
         /\ note' = NoNote
         /\ metaMap' = Live
         /\ UNCHANGED <<canvasRef, surface, undoStack, redoStack, isTainted, maxEntries,
                        maxBytes, protectReturned, thumbEnabled, thumbHeight, storage, jobs, nextId>>
    ELSE IF outcome = "ok"
    THEN /\ env \in ReadOutcomes
         /\ nextId <= MaxSnaps
         /\ nextId' = nextId + 1
         /\ redoStack' = EnforceRedo(Append(undoStack, current), Pop(redoStack),
                                     maxEntries, maxBytes)
         /\ undoStack' = RedoEnforce(Append(undoStack, current), redoStack',
                                     maxEntries, maxBytes)
         /\ metaMap' = DeleteEvicted(
                MetaSet(Live, current.id,
                        [ts |-> Now, label |-> "undo-base", thumbDataUrl |-> NoThumb]),
                Append(undoStack, current), undoStack')
         /\ Called("redo", outcome, ReturnOf(next))
         /\ note' = NoteAfter(next,
                Payload(undoStack', redoStack', maxEntries, maxBytes, protectReturned,
                        metaMap', thumbEnabled, thumbHeight, "none"))
         /\ UNCHANGED <<canvasRef, surface, isTainted, maxEntries, maxBytes,
                        protectReturned, thumbEnabled, thumbHeight, storage, jobs>>
    ELSE IF IsTaintError(outcome)
    THEN /\ env \in ReadOutcomes
         /\ redoStack' = RedoStackOnTaint(redoStack)
         /\ isTainted' = TRUE
         /\ Called("redo", outcome, RetNull)
         /\ note' = Payload(undoStack, redoStack', maxEntries, maxBytes, protectReturned,
                            Live, thumbEnabled, thumbHeight, "tainted:true")
         /\ metaMap' = Live
         /\ UNCHANGED <<canvasRef, surface, undoStack, maxEntries, maxBytes,
                        protectReturned, thumbEnabled, thumbHeight, storage,
                        jobs, nextId>>
    ELSE /\ env \in ReadOutcomes
         /\ redoStack' = Pop(redoStack)
         /\ Called("redo", outcome, ReturnOf(next))
         /\ note' = NoteAfter(next,
                Payload(undoStack, redoStack', maxEntries, maxBytes, protectReturned,
                        Live, thumbEnabled, thumbHeight, "none"))
         /\ metaMap' = Live
         /\ UNCHANGED <<canvasRef, surface, undoStack, isTainted, maxEntries, maxBytes,
                        protectReturned, thumbEnabled, thumbHeight, storage,
                        jobs, nextId>>

(***************************************************************************)
(* Thumbnail jobs (_scheduleThumbGeneration).  pushHistory queues a job    *)
(* and returns; the idle callback, the blob callback and FileReader.onload *)
(* run later, after any number of other calls.  Only the last of them      *)
(* touches the module's state, so the job is one pending item with one     *)
(* completion step: the preview is attached, or the encoding failed.  The  *)
(* encoded preview is the opaque string "data:", and the job is known by   *)
(* the identity of the ImageData its closure holds.                        *)
(***************************************************************************)
\* mutant: the entry is replaced by one that holds the preview only
AttachThumb_Replaces(m, id) ==
    MetaSet(m, id, [ts |-> 0, label |-> "", thumbDataUrl |-> "data:"])

\* mutant: the preview is not stored
AttachThumb_Missing(m, id) == m

\* const m = metaMap.get(imgData) || {}; m.thumbDataUrl = ...; metaMap.set(imgData, m)
AttachThumb(m, id) ==
    MetaSet(m, id,
            IF id \in DOMAIN m
            THEN [m[id] EXCEPT !.thumbDataUrl = "data:"]
            ELSE [ts |-> 0, label |-> "", thumbDataUrl |-> "data:"])

\* fr.onload (or the synchronous toDataURL branch): attach and notify
thumbComplete(id) ==
    /\ id \in jobs
    /\ jobs' = jobs \ {id}
    /\ metaMap' = AttachThumb(Live, id)
    /\ note' = Payload(undoStack, redoStack, maxEntries, maxBytes, protectReturned,
                       metaMap', thumbEnabled, thumbHeight, "{}")
    /\ Called("thumbComplete", "none", RetNone)
    /\ UNCHANGED <<canvasRef, surface, undoStack, redoStack, isTainted, maxEntries,
                   maxBytes, protectReturned, thumbEnabled, thumbHeight, storage, nextId>>

\* mutant: the failed job stores an empty preview all the same
FailedThumb_Attaches(m, id) == AttachThumb(m, id)

\* what the failure paths do to the table: .catch(() => resolve()), else
\* resolve(), catch {} write nothing
FailedThumb(m, id) == m

\* convertToBlob rejects, toBlob hands over null, or toDataURL throws: resolve()
\* and nothing else
thumbFails(id) ==
    /\ id \in jobs
    /\ jobs' = jobs \ {id}
    /\ note' = NoNote
    /\ metaMap' = FailedThumb(Live, id)
    /\ Called("thumbFails", "none", RetNone)
    /\ UNCHANGED <<canvasRef, surface, undoStack, redoStack, isTainted, maxEntries,
                   maxBytes, protectReturned, thumbEnabled, thumbHeight, storage, nextId>>

(***************************************************************************)
(* The collaborators: they change the surface, and draw what undo/redo     *)
(* returned.                                                               *)
(***************************************************************************)
draw(s) ==
    /\ s # surface
    /\ surface' = s
    /\ Called("draw", "none", RetNone)
    /\ note' = NoNote
    /\ metaMap' = Live
    /\ UNCHANGED <<canvasRef, undoStack, redoStack, isTainted, maxEntries, maxBytes,
                   protectReturned, thumbEnabled, thumbHeight, storage, jobs,
                   nextId>>

Max(a, b) == IF a >= b THEN a ELSE b

\* mutant: the caller does not write the snapshot to the canvas
Drawn_Nothing(img) == surface

\* the canvas after app.js drawImageData(imgData): setCanvasSize(imgData.width,
\* imgData.height), then putImageData
Drawn(img) ==
    [width |-> Max(1, img.width), height |-> Max(1, img.height), data |-> img.data]

\* a collaborator draws what undo or redo returned
drawImageData ==
    /\ lastRet.k = "image"
    /\ surface' = Drawn(lastRet.img)
    /\ Called("drawImageData", "none", RetNone)
    /\ note' = NoNote
    /\ metaMap' = Live
    /\ UNCHANGED <<canvasRef, undoStack, redoStack, isTainted, maxEntries, maxBytes,
                   protectReturned, thumbEnabled, thumbHeight, storage, jobs,
                   nextId>>

Next ==
    \/ \E o \in InitOptions : initHistory(o)
    \/ \E n \in MaxEntriesArgs : setMaxEntries(n)
    \/ \E h \in ThumbHeightArgs : setThumbHeight(h)
    \/ \E l \in PushLabels, env \in ReadInputs : pushHistory(l, env)
    \/ \E env \in ReadInputs : undo(env)
    \/ \E env \in ReadInputs : redo(env)
    \/ \E id \in jobs : thumbComplete(id)
    \/ \E id \in jobs : thumbFails(id)
    \/ \E s \in Surfaces : draw(s)
    \/ drawImageData

Spec == Init /\ [][Next]_vars

\* identities the surface reads can hand out
SnapIds == 1..MaxSnaps

\* the calls of the module and the steps of its jobs, the surface keeping its
\* contents
HistoryNext ==
    \/ \E o \in InitOptions : initHistory(o)
    \/ \E n \in MaxEntriesArgs : setMaxEntries(n)
    \/ \E l \in PushLabels, env \in ReadInputs : pushHistory(l, env)
    \/ \E env \in ReadInputs : undo(env)
    \/ \E env \in ReadInputs : redo(env)
    \/ \E id \in jobs : thumbComplete(id)
    \/ \E id \in jobs : thumbFails(id)

\* requestIdleCallback / setTimeout run every callback they were given, and the
\* blob and FileReader callbacks fire: a queued job does not wait for ever
FairSpec ==
    /\ Init
    /\ [][HistoryNext]_vars
    /\ \A id \in SnapIds : WF_vars(thumbComplete(id) \/ thumbFails(id))

(***************************************************************************)
(* Configuration across sessions: what localStorage may hold, a reload of   *)
(* the page (the module is evaluated again), and the configuration calls    *)
(* with arguments of every kind.                                            *)
(***************************************************************************)
\* Number(localStorage.getItem(key)) for what a session finds: nothing stored,
\* text that is no number, 0, 0.5, 1, 20, 300
StoredConfigs == {Null, NaN, Int2(0), Num(1), Int2(1), Int2(20), Int2(300)}

\* hist.maxEntries as the module itself leaves it: never written, or the
\* String(maxEntries) of an earlier setMaxEntries
StoredByModule == {Null, Int2(0), Int2(1), Int2(2)}

ConfigInit ==
    /\ canvasRef = "null"
    /\ surface = [width |-> 1, height |-> 1, data |-> "A"]
    /\ undoStack = <<>>
    /\ redoStack = <<>>
    /\ isTainted = FALSE
    /\ storage \in [maxEntries : StoredByModule, thumbHeight : StoredConfigs]
    /\ maxEntries = LoadMaxEntries(storage.maxEntries)
    /\ maxBytes = Undefined
    /\ protectReturned = FALSE
    /\ thumbEnabled = TRUE
    /\ thumbHeight = LoadThumbHeight(storage.thumbHeight)
    /\ metaMap = <<>>
    /\ jobs = {}
    /\ nextId = 1
    /\ lastOp = "load"
    /\ lastRead = "none"
    /\ lastRet = RetNone
    /\ pre = [undoStack |-> <<>>, redoStack |-> <<>>, isTainted |-> FALSE, jobs |-> {}]
    /\ note = NoNote
    /\ frame = NoFrame
    /\ caman = NoCaman

\* the page is loaded again: the top level of the module runs, localStorage is
\* what the last session left
reload ==
    /\ canvasRef' = "null"
    /\ surface' = [width |-> 1, height |-> 1, data |-> "A"]
    /\ undoStack' = <<>>
    /\ redoStack' = <<>>
    /\ isTainted' = FALSE
    /\ maxEntries' = LoadMaxEntries(storage.maxEntries)
    /\ maxBytes' = Undefined
    /\ protectReturned' = FALSE
    /\ thumbEnabled' = TRUE
    /\ thumbHeight' = LoadThumbHeight(storage.thumbHeight)
    /\ metaMap' = <<>>
    /\ jobs' = {}
    /\ lastOp' = "load"
    /\ lastRead' = "none"
    /\ lastRet' = RetNone
    /\ pre' = [undoStack |-> <<>>, redoStack |-> <<>>, isTainted |-> FALSE, jobs |-> {}]
    /\ note' = NoNote
    /\ frame' = NoFrame
    /\ caman' = NoCaman
    /\ UNCHANGED <<storage, nextId>>

\* the call of the application, initHistory(canvas, onHistoryChange)
AppInitOption ==
    [kind |-> "function", maxEntries |-> Absent, maxBytes |-> Absent,
     protectReturned |-> FALSE, thumbnails |-> TRUE, thumbHeight |-> Absent]

\* options objects with maxEntries and thumbHeight of every kind
ConfigOptions ==
    {AppInitOption} \cup
    { [kind |-> "object", maxEntries |-> me, maxBytes |-> Absent,
       protectReturned |-> FALSE, thumbnails |-> TRUE, thumbHeight |-> th] :
         me \in {Absent, NaN, Int2(0), Num(1), Num(5)},
         th \in {Absent, NaN, Int2(16), Int2(17), Num(513), Int2(256)} }

ConfigMaxEntriesArgs == {NaN, Int2(0), Int2(-1), Num(1), Num(3), Int2(2)}
ConfigThumbHeightArgs == {NaN, Int2(47), Int2(48), Num(193), Int2(256), Num(513)}

ConfigNext ==
    \/ reload
    \/ \E o \in ConfigOptions : initHistory(o)
    \/ \E n \in ConfigMaxEntriesArgs : setMaxEntries(n)
    \/ \E h \in ConfigThumbHeightArgs : setThumbHeight(h)

ConfigSpec == ConfigInit /\ [][ConfigNext]_vars

(***************************************************************************)
(* Degenerate surfaces: a canvas that a collaborator sized to zero in its   *)
(* height only (canvas.width and canvas.height are set independently).     *)
(***************************************************************************)
DegenerateSurfaces == { [width |-> 1, height |-> 0, data |-> ""] }

\* limits set between calls: 0.5 (stored as 0) and 1.5 (stored as 1)
SurfaceMaxEntriesArgs == {Num(1), Num(3)}

SurfaceNext ==
    \/ \E o \in InitOptions : initHistory(o)
    \/ \E n \in SurfaceMaxEntriesArgs : setMaxEntries(n)
    \/ \E l \in PushLabels, env \in ReadInputs : pushHistory(l, env)
    \/ \E env \in ReadInputs : undo(env)
    \/ \E env \in ReadInputs : redo(env)
    \/ \E id \in jobs : thumbComplete(id)
    \/ \E s \in Surfaces \cup DegenerateSurfaces : draw(s)

SurfaceSpec == Init /\ [][SurfaceNext]_vars

(***************************************************************************)
(* Tight limits: byte caps below and between the sizes of the snapshots,   *)
(* entry limits of 0.5 (stored as 0), 1 and 2, thumbnails off.             *)
(***************************************************************************)
CapOptions ==
    { [kind |-> "object", maxEntries |-> me, maxBytes |-> mb,
       protectReturned |-> FALSE, thumbnails |-> FALSE, thumbHeight |-> Absent] :
      me \in {Num(1), Int2(1), Int2(2)}, mb \in {Absent, Int2(6), Int2(10)} }

CapMaxEntriesArgs == {Int2(1), Int2(2)}

CapNext ==
    \/ \E o \in CapOptions : initHistory(o)
    \/ \E n \in CapMaxEntriesArgs : setMaxEntries(n)
    \/ \E l \in PushLabels, env \in ReadInputs : pushHistory(l, env)
    \/ \E env \in ReadInputs : undo(env)
    \/ \E env \in ReadInputs : redo(env)
    \/ \E s \in Surfaces : draw(s)

CapSpec == Init /\ [][CapNext]_vars

(***************************************************************************)
(* A notification sink that throws. pushHistory calls _updateUI inside its *)
(* try block, after the push, the clearing of the redo stack, the eviction *)
(* and the clearing of the taint flag; the catch block takes the sink's    *)
(* exception for a failed read. The sink throws an ordinary Error, which   *)
(* the catch block does not class as taint.                                *)
(***************************************************************************)
pushHistorySinkThrows(label) ==
    LET snapshot == GetImageData(nextId)
    IN /\ canvasRef # "null"
       /\ surface.width # 0
       /\ ReadOutcome("ok") = "ok"
       /\ nextId <= MaxSnaps
       /\ nextId' = nextId + 1
       /\ redoStack' = EnforceRedo(Append(undoStack, snapshot), ClearRedo(redoStack),
                                   maxEntries, maxBytes)
       /\ undoStack' = PushEnforce(Append(undoStack, snapshot), redoStack',
                                   maxEntries, maxBytes)
       /\ isTainted' = TaintAfterFailedPush(TaintAfterPush(isTainted), "other")
       /\ Called("pushHistory", "ok", RetFalse)
       /\ metaMap' = DeleteEvicted(
              MetaSet(Live, snapshot.id, PushMeta(Now, label)),
              Append(undoStack, snapshot), undoStack')
       /\ note' = Payload(undoStack', redoStack', maxEntries, maxBytes, protectReturned,
                          metaMap', thumbEnabled, thumbHeight,
                          IF isTainted THEN "tainted:false" ELSE "none")
       /\ UNCHANGED <<canvasRef, surface, maxEntries, maxBytes, protectReturned,
                      thumbEnabled, thumbHeight, storage, jobs>>

SinkNext ==
    \/ CapNext
    \/ \E l \in PushLabels : pushHistorySinkThrows(l)

SinkSpec == Init /\ [][SinkNext]_vars

(***************************************************************************)
(* The click handlers of the application: the undo and redo buttons        *)
(* (app.js) and the entries of the history strip (ui.js). A handler is a   *)
(* loop of frame.remaining rounds, each a call of undo or redo followed by *)
(* drawImageData of what it returned, if it returned a snapshot. Handlers  *)
(* run to completion: nothing else runs while frame.handler is set. A      *)
(* handler whose every call returned a snapshot leaves in frame what it    *)
(* was started with (frame.mark: the store and the canvas as an undo click *)
(* found them; frame.listed: the strip entry that was clicked) until that  *)
(* is dropped; only a redo click can come before it is dropped.            *)
(***************************************************************************)
Idle == frame.handler = "none"

Unmarked == frame = NoFrame

\* bookkeeping of a step of the application that calls nothing in the module
HandlerStep(op) ==
    /\ caman' = caman
    /\ lastOp' = op
    /\ note' = NoNote
    /\ metaMap' = Live
    /\ UNCHANGED <<lastRead, lastRet, pre>>

\* metadata of the most recent undo entry
TopMeta ==
    IF undoStack # <<>> /\ Top(undoStack).id \in DOMAIN metaMap
    THEN metaMap[Top(undoStack).id]
    ELSE NoMeta

\* undoBtn click: const data = undo(); if (data) drawImageDataWithUI(data)
undoBtnClick ==
    /\ Unmarked
    /\ frame' = [NoFrame EXCEPT !.handler = "undoBtn", !.op = "undo", !.remaining = 1,
                                !.allOk = TRUE,
                                !.mark = [undoStack |-> undoStack, redoStack |-> redoStack,
                                          surface |-> surface, top |-> TopMeta]]
    /\ HandlerStep("undoBtnClick")
    /\ UNCHANGED <<canvasRef, surface, undoStack, redoStack, isTainted, maxEntries,
                   maxBytes, protectReturned, thumbEnabled, thumbHeight, storage, jobs,
                   nextId>>

\* redoBtn click: const data = redo(); if (data) drawImageDataWithUI(data).
\* round: this click comes right after an undo click that drew a snapshot
redoBtnClick ==
    LET round == frame.last = "undoBtn" /\ frame.allOk
    IN /\ Idle
       /\ frame' = [NoFrame EXCEPT !.handler = "redoBtn", !.op = "redo", !.remaining = 1,
                                   !.allOk = TRUE, !.round = round,
                                   !.mark = IF round THEN frame.mark ELSE NoMark]
       /\ HandlerStep("redoBtnClick")
       /\ UNCHANGED <<canvasRef, surface, undoStack, redoStack, isTainted, maxEntries,
                      maxBytes, protectReturned, thumbEnabled, thumbHeight, storage,
                      jobs, nextId>>

\* the index the strip takes for the current entry: app.js getCurrentIndex
getCurrentIndex == Len(getHistoryThumbnails(undoStack, metaMap)) - 1

\* click on entry idx of the history strip, rendered from the present listing:
\* delta = currentIdx - idx, delta rounds of undo (of redo if delta < 0)
stripClick(idx) ==
    LET delta == getCurrentIndex - idx
    IN /\ Unmarked
       /\ idx \in 0..(Len(undoStack) - 1)
       /\ delta # 0
       /\ frame' = [NoFrame EXCEPT !.handler = "strip",
                                   !.op = IF delta > 0 THEN "undo" ELSE "redo",
                                   !.remaining = IF delta > 0 THEN delta ELSE 0 - delta,
                                   !.idx = idx,
                                   !.listed = undoStack[idx + 1],
                                   !.allOk = TRUE]
       /\ HandlerStep("stripClick")
       /\ UNCHANGED <<canvasRef, surface, undoStack, redoStack, isTainted, maxEntries,
                      maxBytes, protectReturned, thumbEnabled, thumbHeight, storage,
                      jobs, nextId>>

\* the handler is about to call op
CallDue(op) ==
    /\ frame.handler # "none"
    /\ frame.op = op
    /\ frame.remaining > 0
    /\ lastOp \notin {"undo", "redo"}

\* if (data) drawImageData(data), and the end of the round; the handler ends
\* with its last round, or with an exception of the call
drawReturned ==
    LET left == IF lastRet = RetThrow THEN 0 ELSE frame.remaining - 1
    IN /\ frame.handler # "none"
       /\ lastOp \in {"undo", "redo"}
       /\ surface' = IF lastRet.k = "image" THEN Drawn(lastRet.img) ELSE surface
       /\ frame' = IF left > 0
                   THEN [frame EXCEPT !.remaining = left,
                                      !.allOk = @ /\ lastRead = "ok" /\ lastRet.k = "image"]
                   ELSE IF frame.allOk /\ lastRead = "ok" /\ lastRet.k = "image"
                   THEN [frame EXCEPT !.handler = "none", !.op = "none",
                                      !.remaining = 0, !.last = frame.handler]
                   ELSE NoFrame
       /\ HandlerStep("drawReturned")
       /\ UNCHANGED <<canvasRef, undoStack, redoStack, isTainted, maxEntries, maxBytes,
                      protectReturned, thumbEnabled, thumbHeight, storage, jobs, nextId>>

\* what the last handler left is dropped
forget ==
    /\ Idle
    /\ ~Unmarked
    /\ frame' = NoFrame
    /\ UNCHANGED <<canvasRef, surface, undoStack, redoStack, isTainted, maxEntries,
                   maxBytes, protectReturned, thumbEnabled, thumbHeight, metaMap, storage,
                   jobs, nextId, lastOp, lastRead, lastRet, pre, note, caman>>

ClickNext ==
    \/ Unmarked /\ \E o \in InitOptions : initHistory(o)
    \/ Unmarked /\ \E l \in PushLabels, env \in ReadInputs : pushHistory(l, env)
    \/ Unmarked /\ \E id \in jobs : thumbComplete(id)
    \/ Unmarked /\ \E s \in Surfaces : draw(s)
    \/ forget
    \/ undoBtnClick
    \/ redoBtnClick
    \/ \E idx \in 0..(MaxSnaps - 1) : stripClick(idx)
    \/ CallDue("undo") /\ \E env \in ReadInputs : undo(env)
    \/ CallDue("redo") /\ \E env \in ReadInputs : redo(env)
    \/ drawReturned

ClickSpec == Init /\ [][ClickNext]_vars

(***************************************************************************)
(* Filters and adjustments: withCaman of app.js. An operation takes the    *)
(* next token, and goes through two callbacks that run later: the one      *)
(* Caman calls with the canvas (the work, then this.render), and the one   *)
(* render calls at its completion, which calls pushHistory if the token of *)
(* the operation is still the latest. Callbacks run to completion: between *)
(* the token test and the end of the render callback only its pushHistory  *)
(* runs. The pixels Caman writes on the canvas are those of the draw       *)
(* action.                                                                 *)
(***************************************************************************)
MaxOps == 3

NoLabel == ""

\* labels given to withCaman: a filter's, or none
CamanLabels == {"Vintage", NoLabel}

\* no render callback is between its token test and its end
NoRenderRunning == \A op \in caman.ops : op.stage # "push"

\* bookkeeping of a step of the application that calls nothing in the module
CamanStep(op) ==
    /\ frame' = frame
    /\ lastOp' = op
    /\ note' = NoNote
    /\ metaMap' = Live
    /\ UNCHANGED <<canvasRef, surface, undoStack, redoStack, isTainted, maxEntries,
                   maxBytes, protectReturned, thumbEnabled, thumbHeight, storage, jobs,
                   nextId, lastRead, lastRet, pre>>

\* the operations in flight, each marked as overtaken by the one that starts
Overtaken(ops) == { [op EXCEPT !.superseded = TRUE] : op \in ops }

\* withCaman(work, {label}): if (!canvas.width) return; token = ++camanOpToken;
\* camanBusy = true; Caman("#canvas", callback), which may throw
withCaman(label, initOk) ==
    /\ NoRenderRunning
    /\ surface.width # 0
    /\ caman.opToken < MaxOps
    /\ caman' = [caman EXCEPT
                    !.opToken = @ + 1,
                    !.busy = initOk,
                    !.ops = IF initOk
                            THEN Overtaken(@) \cup
                                 {[token |-> caman.opToken + 1, label |-> label,
                                   stage |-> "init", superseded |-> FALSE]}
                            ELSE Overtaken(@)]
    /\ CamanStep("withCaman")

\* the callback Caman calls: the work, then this.render(...); if either
\* throws, camanBusy = false and the operation is over
camanCallback(op, workOk) ==
    /\ NoRenderRunning
    /\ op \in caman.ops
    /\ op.stage = "init"
    /\ caman' = IF workOk
                THEN [caman EXCEPT !.ops = (@ \ {op}) \cup {[op EXCEPT !.stage = "render"]}]
                ELSE [caman EXCEPT !.ops = @ \ {op}, !.busy = FALSE]
    /\ CamanStep("camanCallback")

\* if (token === camanOpToken)
Accepted_Any(token, latest) == TRUE

Accepted(token, latest) == token = latest

\* the render callback up to its call of pushHistory: the token test and
\* if (label); without the call it ends here with camanBusy = false
renderCallback(op) ==
    /\ NoRenderRunning
    /\ op \in caman.ops
    /\ op.stage = "render"
    /\ caman' = IF Accepted(op.token, caman.opToken) /\ op.label # NoLabel
                THEN [caman EXCEPT !.ops = (@ \ {op}) \cup {[op EXCEPT !.stage = "push"]}]
                ELSE [caman EXCEPT !.ops = @ \ {op}, !.busy = FALSE,
                                   !.discarded = @ \cup {op.token}]
    /\ CamanStep("renderCallback")

\* the render callback is about to call pushHistory(label)
PushDue(label) ==
    /\ lastOp = "renderCallback"
    /\ \E op \in caman.ops : op.stage = "push" /\ op.label = label

\* try { pushHistory(label) } catch {} has returned: onHistoryChange(),
\* camanBusy = false
renderEnd ==
    /\ lastOp = "pushHistory"
    /\ \E op \in caman.ops :
          /\ op.stage = "push"
          /\ caman' = [caman EXCEPT !.ops = @ \ {op}, !.busy = FALSE,
                                    !.pushedBy = @ \cup {[token |-> op.token,
                                                          superseded |-> op.superseded]}]
    /\ CamanStep("renderEnd")

CamanNext ==
    \/ NoRenderRunning /\ initHistory(AppInitOption)
    \/ NoRenderRunning /\ \E s \in Surfaces : draw(s)
    \/ NoRenderRunning /\ \E env \in ReadInputs : undo(env)
    \/ \E l \in CamanLabels, initOk \in BOOLEAN : withCaman(l, initOk)
    \/ \E op \in caman.ops, workOk \in BOOLEAN : camanCallback(op, workOk)
    \/ \E op \in caman.ops : renderCallback(op)
    \/ \E l \in CamanLabels, env \in ReadInputs : PushDue(l) /\ pushHistory(l, env)
    \/ renderEnd

CamanSpec == Init /\ [][CamanNext]_vars

(***************************************************************************)
(* Properties.  A state is the state in which the call named by lastOp     *)
(* returned; pre holds the stacks and the taint flag as that call found     *)
(* them.                                                                   *)
(***************************************************************************)
PushSucceeded == lastOp = "pushHistory" /\ lastRet = RetTrue

StacksAsBefore == undoStack = pre.undoStack /\ redoStack = pre.redoStack

\* C1: after every call the undo stack holds at most maxEntries snapshots.
C1_UndoWithinMaxEntries == Len(undoStack) <= maxEntries

\* a push onto an undo stack that was full
C1_Witness ==
    /\ PushSucceeded
    /\ Len(pre.undoStack) = maxEntries
    /\ Len(undoStack) = maxEntries

\* C2: with maxBytes set, after every call the snapshots of both stacks together
\* take at most maxBytes bytes.
C2_BytesWithinMaxBytes ==
    ~NoByteCap(maxBytes) => getEstimatedBytes(undoStack, redoStack) <= maxBytes

\* C3: with protectReturned, push(A); push(B); undo() returns A's bytes.
C3_UndoReturnsPrevious ==
    ( /\ lastOp = "undo"
      /\ lastRead = "ok"
      /\ protectReturned
      /\ pre.redoStack = <<>>
      /\ Len(pre.undoStack) = 2
      /\ pre.undoStack[1].data = "A"
      /\ pre.undoStack[2].data = "B"
      /\ \A i \in 1..2 : /\ pre.undoStack[i].id \in DOMAIN metaMap
                         /\ metaMap[pre.undoStack[i].id].label \in PushLabels
      /\ Top(redoStack).data = "B" )
    => /\ lastRet.k = "image"
       /\ lastRet.img.data = "A"
       /\ lastRet.img.width = pre.undoStack[1].width
       /\ lastRet.img.height = pre.undoStack[1].height

\* C4: when a push succeeds the redo stack is empty.
C4_PushClearsRedo == PushSucceeded => redoStack = <<>>

\* a push that succeeded with entries on the redo stack
C4_Witness == PushSucceeded /\ Len(pre.redoStack) > 0

\* C5: a push, undo or redo whose surface read fails with a security error returns
\* false/null and leaves both stacks as they were.
C5_SecurityFailureLeavesStacks ==
    (lastOp \in {"pushHistory", "undo", "redo"} /\ lastRead = "security")
    => /\ lastRet \in {RetFalse, RetNull}
       /\ StacksAsBefore

\* C6: a call or a thumbnail completion that starts while the taint flag is set
\* leaves the sizes of both stacks as they were, unless it is a push that succeeds.
C6_TaintedStacksFrozen ==
    ( /\ pre.isTainted
      /\ ~PushSucceeded
      /\ lastOp \in {"pushHistory", "undo", "redo", "setMaxEntries", "thumbComplete"} )
    => /\ Len(undoStack) = Len(pre.undoStack)
       /\ Len(redoStack) = Len(pre.redoStack)

\* history reads are off: the flag is set, or there is nothing on either stack
ReadsOff(t, u, r) == t \/ (u = <<>> /\ r = <<>>)

\* C7: a push that fails with a security error sets the flag.  From a state with
\* the flag set, every call but a push that succeeds leaves the flag set or both
\* stacks empty; as long as that lasts canUndo and canRedo are false and undo and
\* redo return null and keep both stacks.  A push that succeeds leaves the flag
\* clear.
C7_TaintCycle ==
    /\ (lastOp = "pushHistory" /\ lastRead = "security") => isTainted
    /\ (ReadsOff(pre.isTainted, pre.undoStack, pre.redoStack) /\ ~PushSucceeded)
       => /\ ReadsOff(isTainted, undoStack, redoStack)
          /\ ~canUndo
          /\ ~canRedo
          /\ lastOp \in {"undo", "redo"}
             => /\ lastRet = RetNull
                /\ Len(undoStack) = Len(pre.undoStack)
                /\ Len(redoStack) = Len(pre.redoStack)
    /\ PushSucceeded => ~isTainted

\* with the flag set, an undo was refused although both stacks have entries
C7_Witness ==
    /\ pre.isTainted
    /\ lastOp = "undo"
    /\ lastRet = RetNull
    /\ Len(undoStack) > 0
    /\ Len(redoStack) > 0

\* C8: any failure of the surface read in push, undo or redo leaves the flag set.
C8_AnyReadFailureTaints ==
    (lastOp \in {"pushHistory", "undo", "redo"} /\ lastRead \in {"security", "other"})
    => isTainted

\* C9: the flag goes from set to clear only in a push that succeeds.
C9_OnlyPushClearsTaint == (pre.isTainted /\ ~isTainted) => PushSucceeded

\* C9 amended: the flag goes from set to clear only in a push that succeeds or in
\* initHistory.
C9_OnlyPushOrInitClearsTaint ==
    (pre.isTainted /\ ~isTainted) => (PushSucceeded \/ lastOp = "initHistory")

\* a push cleared the flag
C9_Witness == pre.isTainted /\ ~isTainted /\ PushSucceeded

\* C10: the keys of the metadata table are exactly the snapshots of the two stacks
\* (of the table as the next call finds it: an entry whose key nothing references
\* any more does not count).
C10_MetaMatchesStore == DOMAIN Live = Ids(undoStack) \cup Ids(redoStack)

(***************************************************************************)
(* Thumbnail jobs.                                                         *)
(***************************************************************************)
\* the snapshots whose job ended in the step that produced this state
Ended == pre.jobs \ jobs

\* the snapshots whose job was queued in the step that produced this state
Queued == jobs \ pre.jobs

InStore(id, u, r) == id \in Ids(u) \cup Ids(r)

\* the snapshot was in neither stack when the step started
Stale(id) == ~InStore(id, pre.undoStack, pre.redoStack)

HasThumb(id) == id \in DOMAIN metaMap /\ metaMap[id].thumbDataUrl # NoThumb

\* C11: a thumbnail completion whose snapshot has left the store writes no
\* metadata entry for it.
C11_StaleThumbDiscarded ==
    lastOp = "thumbComplete"
    => \A id \in Ended : Stale(id) => id \notin DOMAIN metaMap

\* C12: a thumbnail completion whose snapshot has left the store emits no
\* notification.
C12_StaleThumbSilent ==
    lastOp = "thumbComplete"
    => \A id \in Ended : Stale(id) => note = NoNote

\* the entry of the snapshot in listEntries() carries a thumbnail
ListedWithThumb(id) ==
    \E i \in 1..Len(undoStack) :
        /\ undoStack[i].id = id
        /\ getHistoryThumbnails(undoStack, Live)[i].thumbDataUrl # NoThumb

\* the encoding of the snapshot's preview has just failed
EncodeFailed(id) == lastOp = "thumbFails" /\ id \in Ended

\* C13: once a push has succeeded with thumbnails enabled, eventually the entry of
\* the pushed snapshot in listEntries() has a thumbnail, unless the snapshot leaves
\* the undo stack or the encoding fails.
C13_ThumbEventually ==
    \A id \in SnapIds :
        (PushSucceeded /\ thumbEnabled /\ id \in Queued)
        ~> (ListedWithThumb(id) \/ id \notin Ids(undoStack) \/ EncodeFailed(id))

\* a job completed after other calls and its snapshot is listed with the preview
C13_Witness ==
    /\ lastOp = "thumbComplete"
    /\ \E id \in Ended : ListedWithThumb(id) /\ Top(undoStack).id # id

\* C14: a thumbnail completion (or failure) leaves both stacks, the limits and the
\* taint flag as they were; of the metadata it writes the thumbnail field only.
C14_ThumbStepFrame ==
    [][ lastOp' \in {"thumbComplete", "thumbFails"}
        => /\ UNCHANGED <<undoStack, redoStack, isTainted, maxEntries, maxBytes,
                          protectReturned>>
           /\ \A id \in DOMAIN metaMap' :
                  IF id \in DOMAIN metaMap
                  THEN /\ metaMap'[id].ts = metaMap[id].ts
                       /\ metaMap'[id].label = metaMap[id].label
                  ELSE /\ metaMap'[id].ts = 0
                       /\ metaMap'[id].label = "" ]_vars

\* a preview was attached to a labelled entry while the flag was set and both
\* stacks had entries
C14_Witness ==
    /\ lastOp = "thumbComplete"
    /\ isTainted
    /\ Len(undoStack) > 0
    /\ Len(redoStack) > 0
    /\ \E id \in Ended : HasThumb(id) /\ metaMap[id].label \in PushLabels

BaseLabels == {"undo-base", "redo-base"}

\* C15: a thumbnail job is queued only by a push that succeeds with thumbnails
\* enabled, and for the snapshot it captured; the captures of undo and redo never
\* get a thumbnail.
C15_OnlyPushSchedules ==
    /\ Queued # {} => /\ PushSucceeded
                      /\ thumbEnabled
                      /\ Queued = {nextId - 1}
    /\ \A id \in DOMAIN metaMap :
           metaMap[id].label \in BaseLabels => ~HasThumb(id) /\ id \notin jobs

\* every job has ended and the capture of an undo is still without a thumbnail
C15_Witness ==
    /\ lastOp = "thumbComplete"
    /\ jobs = {}
    /\ \E i \in 1..Len(redoStack) :
           /\ redoStack[i].id \in DOMAIN metaMap
           /\ metaMap[redoStack[i].id].label = "redo-base"
           /\ ~HasThumb(redoStack[i].id)

\* C16: when a push returns, the entry of the snapshot it captured has no
\* thumbnail, neither in the table nor in the notification the push emitted; with
\* thumbnails enabled its job is pending, to complete in a later step.
C16_AttachAfterPush ==
    PushSucceeded
    => LET id == nextId - 1
       IN /\ ~HasThumb(id)
          /\ note.sent
          /\ \A i \in 1..Len(undoStack) :
                 undoStack[i].id = id => note.thumbnails[i].thumbDataUrl = NoThumb
          /\ thumbEnabled => id \in jobs

\* a push returned when the preview of an older entry was already attached
C16_Witness ==
    /\ PushSucceeded
    /\ Len(undoStack) = 2
    /\ HasThumb(undoStack[1].id)
    /\ undoStack[2].id \in jobs
    /\ note.thumbnails[1].thumbDataUrl # NoThumb
    /\ note.thumbnails[2].thumbDataUrl = NoThumb

Min(a, b) == IF a <= b THEN a ELSE b

\* the last n elements of a sequence
LastN(s, n) == SubSeq(s, Len(s) - n + 1, Len(s))

\* C17: without a byte cap, a push that succeeds leaves the newest
\* min(length + 1, maxEntries) snapshots, in push order, and listEntries() has as
\* many entries.
C17_EvictsOldest ==
    (PushSucceeded /\ NoByteCap(maxBytes))
    => LET all == Append(pre.undoStack, GetImageData(nextId - 1))
           k == Min(Len(all), maxEntries)
       IN /\ undoStack = LastN(all, k)
          /\ Len(getHistoryThumbnails(undoStack, Live)) = k

\* the third push under maxEntries = 2: the first snapshot was evicted
C17_Witness ==
    /\ PushSucceeded
    /\ NoByteCap(maxBytes)
    /\ maxEntries = 2
    /\ Len(pre.undoStack) = 2
    /\ pre.redoStack = <<>>
    /\ undoStack = <<pre.undoStack[2], GetImageData(nextId - 1)>>

\* C18: the redo stack changes only by undo appending its capture, redo removing
\* the newest entry, or a push that succeeds emptying it; the eviction of a push,
\* redo or setMaxEntries removes nothing from it.
C18_RedoOnlyByUndoRedoPush ==
    \/ redoStack = pre.redoStack
    \/ /\ lastOp = "undo"
       /\ Pop(redoStack) = pre.redoStack
       /\ Len(redoStack) = Len(pre.redoStack) + 1
    \/ /\ lastOp = "redo"
       /\ pre.redoStack # <<>>
       /\ redoStack = Pop(pre.redoStack)
    \/ /\ PushSucceeded
       /\ redoStack = <<>>

\* C18 amended: the redo stack changes only in those three ways or by initHistory
\* emptying it; eviction removes nothing from it.
C18_RedoOnlyByUndoRedoPushInit ==
    \/ C18_RedoOnlyByUndoRedoPush
    \/ /\ lastOp = "initHistory"
       /\ redoStack = <<>>

\* setMaxEntries evicted from the undo stack and the redo stack kept its entries
C18_Witness ==
    /\ lastOp = "setMaxEntries"
    /\ Len(undoStack) < Len(pre.undoStack)
    /\ Len(redoStack) > 0
    /\ redoStack = pre.redoStack

\* !Number.isFinite(n) || n <= 0 does not hold
ValidMaxEntries(n) == IsFinite(n) /\ n.h2 > 0

\* C19: a setMaxEntries(n) with a valid n leaves at most n entries on the undo
\* stack, the newest ones, and has emitted a notification that shows the new limit
\* and the stack as it now is.
C19_SetMaxEntriesImmediate ==
    [][ \A n \in MaxEntriesArgs :
          (ValidMaxEntries(n) /\ setMaxEntries(n))
          => /\ 2 * Len(undoStack') <= n.h2
             /\ Len(undoStack') <= Len(undoStack)
             /\ undoStack' = LastN(undoStack, Len(undoStack'))
             /\ note'.sent
             /\ note'.limits.maxEntries = maxEntries'
             /\ 2 * note'.limits.maxEntries <= n.h2
             /\ note'.undoCount = Len(undoStack')
             /\ note'.thumbnails = getHistoryThumbnails(undoStack', metaMap') ]_vars

\* setMaxEntries cut a stack of two down to one and said so
C19_Witness ==
    /\ lastOp = "setMaxEntries"
    /\ Len(pre.undoStack) = 2
    /\ undoStack = <<pre.undoStack[2]>>
    /\ maxEntries = 1
    /\ note.sent
    /\ note.limits.maxEntries = 1
    /\ note.undoCount = 1

\* a thumbnail height of the valid range [48, 256]
ValidThumbHeight(h) == IsFinite(h) /\ h.h2 >= 2 * 48 /\ h.h2 <= 2 * 256

\* the field is present in the options object
Given(x) == x.k # "undef"

\* C20: an invalid configuration value is rejected and the value in force is
\* kept: by setMaxEntries and setThumbHeight, which then change no stack and emit
\* no notification, and by initHistory for the maxEntries and thumbHeight of its
\* options.
C20_InvalidConfigRetained ==
    [][ /\ \A n \in MaxEntriesArgs :
              (~ValidMaxEntries(n) /\ setMaxEntries(n))
              => /\ UNCHANGED <<maxEntries, undoStack, redoStack>>
                 /\ note' = NoNote
        /\ \A h \in ThumbHeightArgs :
              (~ValidThumbHeight(h) /\ setThumbHeight(h))
              => /\ UNCHANGED <<thumbHeight, undoStack, redoStack>>
                 /\ note' = NoNote
        /\ \A o \in InitOptions :
              (o.kind = "object" /\ initHistory(o))
              => /\ (Given(o.maxEntries) /\ ~ValidMaxEntries(o.maxEntries))
                    => maxEntries' = maxEntries
                 /\ (Given(o.thumbHeight) /\ ~ValidThumbHeight(o.thumbHeight))
                    => thumbHeight' = thumbHeight ]_vars

\* C21: the thumbnail height in force is an integer in [48, 256].
C21_ThumbHeightInRange ==
    /\ thumbHeight.k = "num"
    /\ thumbHeight.h2 % 2 = 0
    /\ thumbHeight.h2 >= 2 * 48
    /\ thumbHeight.h2 <= 2 * 256

\* C22: the maxEntries in force is an integer >= 1.
C22_MaxEntriesPositive == maxEntries >= 1

(***************************************************************************)
(* Calls on an empty surface, and what undo and redo do.                   *)
(***************************************************************************)
EmptySurface == surface.width = 0 \/ surface.height = 0

\* C23: a push on a surface of width zero or height zero returns false, leaves
\* both stacks, the taint flag and the metadata of every held snapshot as they
\* were, and queues no thumbnail job.
C23_EmptySurfacePushNoOp ==
    [][ \A l \in PushLabels, env \in ReadInputs :
          (EmptySurface /\ pushHistory(l, env))
          => /\ lastRet' = RetFalse
             /\ UNCHANGED <<undoStack, redoStack, isTainted, jobs>>
             /\ metaMap' = Live ]_vars

\* a push refused on a surface of positive width and zero height, with both
\* stacks occupied
C23_Witness ==
    /\ lastOp = "pushHistory"
    /\ surface.width > 0 /\ surface.height = 0
    /\ lastRet = RetFalse
    /\ lastRead = "other"
    /\ Len(undoStack) > 0 /\ Len(redoStack) > 0

SamePixels(a, b) == a.width = b.width /\ a.height = b.height /\ a.data = b.data

\* C24: an undo on an untainted store with a non-empty undo stack whose surface
\* read succeeds puts a capture of the surface, labelled "redo-base", on top of
\* the redo stack, takes the most recent entry off the undo stack and returns
\* its pixels; an undo on a tainted store or an empty undo stack returns null
\* and changes nothing.
C24_UndoMovesTop ==
    [][ \A env \in ReadInputs :
          undo(env)
          => IF isTainted \/ Len(undoStack) = 0
             THEN /\ lastRet' = RetNull
                  /\ UNCHANGED <<undoStack, redoStack, isTainted, jobs, surface>>
                  /\ metaMap' = Live
             ELSE lastRead' = "ok"
                  => /\ Len(redoStack') = Len(redoStack) + 1
                     /\ Pop(redoStack') = redoStack
                     /\ SamePixels(Top(redoStack'), surface)
                     /\ metaMap'[Top(redoStack').id].label = "redo-base"
                     /\ Len(undoStack') = Len(undoStack) - 1
                     /\ undoStack' = SubSeq(undoStack, 1, Len(undoStack) - 1)
                     /\ lastRet'.k = "image"
                     /\ SamePixels(lastRet'.img, undoStack[Len(undoStack)]) ]_vars

\* an undo that moved a snapshot off an undo stack of two entries with
\* different pixels, the surface showing something else again
C24_Witness ==
    /\ lastOp = "undo" /\ lastRead = "ok"
    /\ Len(pre.undoStack) = 2
    /\ ~SamePixels(pre.undoStack[1], pre.undoStack[2])
    /\ lastRet.k = "image"
    /\ SamePixels(lastRet.img, pre.undoStack[2])
    /\ Len(redoStack) = 1

\* C25: an undo whose surface read fails, whatever the failure, sets the taint
\* flag and returns null, both stacks staying as they were.
C25_UndoReadFailureBails ==
    (lastOp = "undo" /\ lastRead \in {"security", "other"})
    => /\ isTainted
       /\ lastRet = RetNull
       /\ StacksAsBefore

\* the bytes a capture of the surface takes
SurfaceBytes == surface.width * surface.height * 4

LivePayload ==
    /\ note.undoCount = Len(undoStack)
    /\ note.redoCount = Len(redoStack)
    /\ note.estimatedBytes = SumBytes(undoStack) + SumBytes(redoStack)
    /\ note.limits = [maxEntries |-> maxEntries, maxBytes |-> maxBytes,
                      protectReturned |-> protectReturned]
    /\ Len(note.thumbnails) = Len(undoStack)
    /\ \A i \in 1..Len(undoStack) :
          /\ undoStack[i].id \in DOMAIN metaMap
          /\ note.thumbnails[i] =
                [index |-> i - 1,
                 width |-> undoStack[i].width,
                 height |-> undoStack[i].height,
                 ts |-> metaMap[undoStack[i].id].ts,
                 label |-> metaMap[undoStack[i].id].label,
                 thumbDataUrl |-> metaMap[undoStack[i].id].thumbDataUrl]

\* the step was a call that changed the store
Mutating ==
    \/ lastOp' = "pushHistory" /\ lastRet' = RetTrue
    \/ lastOp' \in {"undo", "redo"} /\ lastRet'.k = "image"
    \/ \E n \in MaxEntriesArgs : ValidMaxEntries(n) /\ setMaxEntries(n)
    \/ lastOp' = "thumbComplete"

\* C27: every successful push, every undo or redo that returns a snapshot, every
\* valid setMaxEntries and every thumbnail attach has emitted a notification when
\* it ends, and every notification emitted carries the undo count, redo count,
\* estimated bytes, limits and entry list of the state it was emitted in.
C27_NotifiesLiveState ==
    [][ /\ Mutating => note'.sent
        /\ note'.sent => LivePayload' ]_vars

\* the notification of a push that evicted: two entries listed, the older one
\* being the second snapshot pushed
C27_Witness ==
    /\ PushSucceeded
    /\ note.sent
    /\ Len(pre.undoStack) = 2
    /\ note.undoCount = 2
    /\ note.thumbnails[1].ts = pre.undoStack[2].id

\* C28: push ends with true or false, undo and redo end with null or a
\* snapshot, never with an exception reaching the caller, whatever the surface
\* read did and whatever the stacks hold; no stack holds a snapshot with a
\* zero dimension, the one input cloneImageData throws on.
C28_NoExceptionEscapes ==
    /\ lastOp = "pushHistory" => lastRet \in {RetTrue, RetFalse}
    /\ lastOp \in {"undo", "redo"} => (lastRet = RetNull \/ lastRet.k = "image")
    /\ \A i \in 1..Len(undoStack) : undoStack[i].width > 0 /\ undoStack[i].height > 0
    /\ \A i \in 1..Len(redoStack) : redoStack[i].width > 0 /\ redoStack[i].height > 0

\* an undo on a surface of zero height, under protectReturned: the read threw,
\* the snapshot was cloned and returned
C28_Witness ==
    /\ lastOp = "undo"
    /\ lastRead = "other"
    /\ surface.width > 0 /\ surface.height = 0
    /\ protectReturned
    /\ lastRet.k = "image"
    /\ lastRet.img.id = 0

\* C29: with maxEntries >= 1 and no byte cap, an undo that returns a snapshot
\* has put a capture of the surface on top of the redo stack, and a redo that
\* returns a snapshot has left a capture of the surface on top of the undo stack.
C29_CurrentStateKept ==
    (NoByteCap(maxBytes) /\ maxEntries >= 1)
    => /\ (lastOp = "undo" /\ lastRet.k = "image")
          => /\ Len(redoStack) = Len(pre.redoStack) + 1
             /\ Pop(redoStack) = pre.redoStack
             /\ SamePixels(Top(redoStack), surface)
       /\ (lastOp = "redo" /\ lastRet.k = "image")
          => /\ Len(undoStack) > 0
             /\ Top(undoStack).id \notin Ids(pre.undoStack)
             /\ SamePixels(Top(undoStack), surface)

\* C30: when the module is loaded again and the history initialized as the
\* application does, initHistory(canvas, callback), the maxEntries in force is
\* the one an earlier setMaxEntries stored, and both stacks are empty.
C30_MaxEntriesRestored ==
    [][ ( /\ lastOp = "load"
          /\ initHistory(AppInitOption)
          /\ storage.maxEntries.k = "num"
          /\ storage.maxEntries.h2 >= 2 )
        => /\ maxEntries' = Floor(storage.maxEntries)
           /\ undoStack' = <<>>
           /\ redoStack' = <<>> ]_vars

(***************************************************************************)
(* Failed thumbnails, listings, and what a push leaves.                    *)
(***************************************************************************)
\* C31: a thumbnail job that fails emits no notification, leaves both stacks
\* and the taint flag as they were, and writes no thumbnail: its snapshot has
\* none in the metadata afterwards and is listed without one.
C31_ThumbFailureSwallowed ==
    lastOp = "thumbFails"
    => /\ note = NoNote
       /\ StacksAsBefore
       /\ isTainted = pre.isTainted
       /\ \A id \in Ended :
             /\ ~HasThumb(id)
             /\ \A i \in 1..Len(undoStack) :
                   undoStack[i].id = id
                   => getHistoryThumbnails(undoStack, metaMap)[i].thumbDataUrl = NoThumb

\* the job of a snapshot still on the undo stack failed, after the job of
\* another snapshot had attached its thumbnail
C31_Witness ==
    /\ lastOp = "thumbFails"
    /\ \E id \in Ended : id \in Ids(undoStack)
    /\ \E i \in 1..Len(undoStack) : HasThumb(undoStack[i].id)

\* C32: in every state the listing is the entry list a notification emitted in
\* that state carries: one entry per undo-stack snapshot, oldest first, indexed
\* from 0, with the snapshot's size and the timestamp, label and thumbnail of
\* its metadata.
C32_ListingIsPayloadList ==
    LET list == getHistoryThumbnails(undoStack, metaMap)
    IN /\ list = UIEntries(undoStack, metaMap)
       /\ note.sent => note.thumbnails = list
       /\ Len(list) = Len(undoStack)
       /\ \A i \in 1..Len(undoStack) :
             /\ list[i].index = i - 1
             /\ list[i].width = undoStack[i].width
             /\ list[i].height = undoStack[i].height
             /\ undoStack[i].id \in DOMAIN metaMap
             /\ list[i].ts = metaMap[undoStack[i].id].ts
             /\ list[i].label = metaMap[undoStack[i].id].label
             /\ list[i].thumbDataUrl = metaMap[undoStack[i].id].thumbDataUrl

\* a notification over two entries of different sizes, the newer one with its
\* thumbnail and the older one without
C32_Witness ==
    /\ note.sent
    /\ Len(undoStack) = 2
    /\ undoStack[1].width # undoStack[2].width
    /\ HasThumb(undoStack[2].id)
    /\ ~HasThumb(undoStack[1].id)

\* the snapshot a successful push captured is the top entry of the undo stack
CapturedOnTop ==
    /\ Len(undoStack) >= 1
    /\ Top(undoStack).id = nextId - 1
    /\ SamePixels(Top(undoStack), surface)

\* C33: when push returns true, the snapshot it captured is the top entry of
\* the undo stack and canUndo() is true.
C33_PushedOnTop == PushSucceeded => (CapturedOnTop /\ canUndo)

\* the limits leave room for a capture of the surface on its own
SurfaceFits ==
    /\ maxEntries >= 1
    /\ NoByteCap(maxBytes) \/ SurfaceBytes <= maxBytes

\* C33 (amended): when push returns true, the snapshot it captured is the top
\* entry of the undo stack and canUndo() is true if maxEntries and maxBytes
\* leave room for that one snapshot; otherwise the undo stack is empty.
C33_PushedOnTopIfItFits ==
    PushSucceeded
    => IF SurfaceFits THEN CapturedOnTop /\ canUndo
       ELSE undoStack = <<>> /\ ~canUndo

\* a push that returned true under maxEntries >= 1 and a byte cap smaller than
\* the snapshot: nothing is left on the undo stack
C33_Witness ==
    /\ PushSucceeded
    /\ maxEntries >= 1
    /\ ~NoByteCap(maxBytes)
    /\ SurfaceBytes > maxBytes
    /\ undoStack = <<>>
    /\ Len(pre.undoStack) >= 1

\* C34: when push returns false, the undo stack and the redo stack are as they
\* were before the call, also when the failure came after the surface read.
C34_FailedPushKeepsStacks ==
    (lastOp = "pushHistory" /\ lastRet = RetFalse) => StacksAsBefore

(***************************************************************************)
(* The eviction policy, run by a successful push, by a redo that captured  *)
(* the surface, and by a valid setMaxEntries.                              *)
(***************************************************************************)
\* both loops of the policy have left: the stack is within maxEntries, and
\* within maxBytes or empty
LoopsExited(u, r, me, mb) ==
    /\ Len(u) <= me
    /\ NoByteCap(mb) \/ u = <<>> \/ SumBytes(u) + SumBytes(r) <= mb

\* the policy took before to after, the redo stack being r: it removed the k
\* oldest entries and kept the rest in order, k is at most the length of
\* before (one entry per iteration), and with the last entry removed put back
\* a loop would not have left
EvictedNoMoreThanNeeded(before, after, r, me, mb) ==
    LET k == Len(before) - Len(after)
    IN /\ k >= 0
       /\ after = SubSeq(before, k + 1, Len(before))
       /\ LoopsExited(after, r, me, mb)
       /\ k > 0 => LET back == SubSeq(before, k, Len(before))
                   IN \/ Len(back) > me
                      \/ ~NoByteCap(mb) /\ SumBytes(back) + SumBytes(r) > mb

\* C35: every run of the eviction policy removes a prefix of the undo stack it
\* found, oldest first, leaves the rest in order, ends with both loop conditions
\* false, and removes nothing it did not have to: putting the last removed entry
\* back would exceed maxEntries or maxBytes.
C35_EvictionMinimal ==
    [][ /\ (lastOp' = "pushHistory" /\ lastRet' = RetTrue)
           => EvictedNoMoreThanNeeded(Append(undoStack, GetImageData(nextId)),
                                      undoStack', redoStack', maxEntries', maxBytes')
        /\ (lastOp' = "redo" /\ lastRead' = "ok")
           => EvictedNoMoreThanNeeded(Append(undoStack, GetImageData(nextId)),
                                      undoStack', redoStack', maxEntries', maxBytes')
        /\ \A n \in CapMaxEntriesArgs :
              (ValidMaxEntries(n) /\ setMaxEntries(n))
              => EvictedNoMoreThanNeeded(undoStack, undoStack', redoStack',
                                         maxEntries', maxBytes') ]_vars

\* a setMaxEntries whose run removed the only undo entry for the byte cap, the
\* redo stack holding the rest of the bytes
C35_Witness ==
    /\ lastOp = "setMaxEntries"
    /\ Len(pre.undoStack) = 1
    /\ undoStack = <<>>
    /\ maxEntries >= 1
    /\ ~NoByteCap(maxBytes)
    /\ Len(redoStack) = 1
    /\ SumBytes(pre.undoStack) + SumBytes(redoStack) > maxBytes

(***************************************************************************)
(* The click handlers: an undo click answered by a redo click, and a click *)
(* on an entry of the history strip.                                       *)
(***************************************************************************)
\* a redo click that followed an undo click has ended, each having drawn the
\* snapshot its call returned
RoundTripDone == Idle /\ frame.last = "redoBtn" /\ frame.round /\ frame.allOk

\* the stacks the undo click found were within both limits
NoEvictionNeeded ==
    /\ Len(frame.mark.undoStack) <= maxEntries
    /\ \/ NoByteCap(maxBytes)
       \/ SumBytes(frame.mark.undoStack) + SumBytes(frame.mark.redoStack) <= maxBytes

\* the canvas, the pixels of every undo entry and the redo stack are what the
\* undo click found
RoundTripRestores ==
    /\ surface = frame.mark.surface
    /\ Len(undoStack) = Len(frame.mark.undoStack)
    /\ \A i \in 1..Len(undoStack) : SamePixels(undoStack[i], frame.mark.undoStack[i])
    /\ redoStack = frame.mark.redoStack

\* C36 as stated: undo() followed by redo(), each returned snapshot drawn, no
\* eviction and every read succeeding, restores the surface pixels, the undo
\* stack's length and per-entry pixels and the redo stack, and also keeps the
\* label and the thumbnail of the undo stack's top entry.
C36_RoundTripKeepsTopMeta ==
    (RoundTripDone /\ NoEvictionNeeded) =>
        /\ RoundTripRestores
        /\ TopMeta.label = frame.mark.top.label
        /\ TopMeta.thumbDataUrl = frame.mark.top.thumbDataUrl

\* C36 as the code has it: the round trip restores the surface pixels, the undo
\* stack's length and per-entry pixels and the redo stack; the top undo entry
\* is a new capture labelled "undo-base" that has no thumbnail.
C36_RoundTripRestoresPixels ==
    (RoundTripDone /\ NoEvictionNeeded) =>
        /\ RoundTripRestores
        /\ TopMeta.label = "undo-base"
        /\ TopMeta.thumbDataUrl = NoThumb
        /\ \A i \in 1..Len(frame.mark.undoStack) :
               Top(undoStack).id # frame.mark.undoStack[i].id

\* a round trip from a canvas edited since the last push, whose top entry had
\* a label of the caller and a thumbnail
C36_Witness ==
    /\ RoundTripDone
    /\ NoEvictionNeeded
    /\ frame.mark.top.label = "Text"
    /\ frame.mark.top.thumbDataUrl # NoThumb
    /\ ~SamePixels(frame.mark.surface, Top(frame.mark.undoStack))

\* a click on a strip entry has ended, every undo of its loop having returned
\* a snapshot that was drawn
StripJumpDone == Idle /\ frame.last = "strip" /\ frame.allOk

\* C37: a click on history-strip entry idx (the handler iterating undo and
\* drawing each returned snapshot, the current index being that of the last
\* entry) ends with the surface showing the pixels of the snapshot that was
\* listed at position idx.
C37_StripJumpShowsListed ==
    StripJumpDone => SamePixels(surface, frame.listed)

(***************************************************************************)
(* Overlapping filter operations.                                          *)
(***************************************************************************)
\* the operation whose render callback has called pushHistory
Pushing == { op \in caman.ops : op.stage = "push" /\ lastOp = "pushHistory" }

\* C38: when operations started through withCaman overlap, only the render
\* completion of the most recently started one calls pushHistory: an operation
\* that a later one has overtaken never pushes a history entry, and no two
\* operations that were in flight together both push.
C38_OnlyLatestPushes ==
    /\ \A op \in Pushing :
          /\ ~op.superseded
          /\ op.token = caman.opToken
          /\ \A other \in caman.ops : other.token <= op.token
    /\ \A p \in caman.pushedBy : ~p.superseded
    /\ Cardinality(Pushing) <= 1

\* the second of two overlapping operations has pushed its entry after the
\* render completion of the first was discarded
C38_Witness ==
    /\ \E op \in Pushing : op.token = 2
    /\ 1 \in caman.discarded
    /\ lastRet = RetTrue
    /\ Len(undoStack) = Len(pre.undoStack) + 1

====
